---- MODULE Spec2Model ----
(***************************************************************************)
(* flatten_dict.py: flatten() and unflatten() of nested Python structures. *)
(*                                                                         *)
(* Python objects are modelled as tagged records:                          *)
(*   [i |-> n]      an int            [s |-> "a"]    a str                 *)
(*   [t |-> seq]    a tuple           [l |-> seq]    a list                *)
(*   [none |-> TRUE] None                                                  *)
(*   [d |-> items]  a dict: the sequence of its <<key, value>> items in    *)
(*                  insertion order, keys pairwise distinct                *)
(* A raised exception is a record [exc |-> type, what |-> ..., key |-> ..].*)
(***************************************************************************)
EXTENDS Integers, Sequences, FiniteSets, TLC

VARIABLES pc, fargs, flat_out, uargs, unflat_out
vars == <<pc, fargs, flat_out, uargs, unflat_out>>

(* ---------------------------- bounds ----------------------------------- *)
\* nodes below the root of a generated nested structure
MaxNodes == 3
\* items of one generated container
MaxWidth == 2
\* items of a generated flat mapping
MaxEntries == 2

(* ------------------------ Python object model -------------------------- *)
None == [none |-> TRUE]

TypeOf(v) ==
  IF "d" \in DOMAIN v THEN "dict"
  ELSE IF "l" \in DOMAIN v THEN "list"
  ELSE IF "t" \in DOMAIN v THEN "tuple"
  ELSE IF "s" \in DOMAIN v THEN "str"
  ELSE IF "i" \in DOMAIN v THEN "int"
  ELSE "NoneType"

\* collections.abc.Mapping: the abstract type every dict is an instance of
Mapping == "dict"

\* isinstance(v, types) for a tuple of types, here a set of type names
isinstance(v, types) == TypeOf(v) \in types

\* bool(v) of a container: non-empty
truthy(v) ==
  CASE TypeOf(v) = "dict" -> Len(v.d) > 0
    [] TypeOf(v) = "list" -> Len(v.l) > 0
    [] TypeOf(v) = "tuple" -> Len(v.t) > 0
    [] TypeOf(v) = "int" -> v.i # 0
    [] TypeOf(v) = "str" -> v.s # ""
    [] OTHER -> TypeOf(v) # "NoneType"

\* hash(v) succeeds: dicts and lists are unhashable, a tuple is hashable
\* when its elements are
RECURSIVE hashable(_)
hashable(v) ==
  CASE TypeOf(v) \in {"dict", "list"} -> FALSE
    [] TypeOf(v) = "tuple" -> \A p \in 1..Len(v.t) : hashable(v.t[p])
    [] OTHER -> TRUE

\* key in d, d[key] and d[key] = value of a dict with the items `items`
dict_has(items, key) == \E p \in 1..Len(items) : items[p][1] = key
dict_get(items, key) ==
  items[CHOOSE p \in 1..Len(items) : items[p][1] = key][2]
dict_set(items, key, value) ==
  IF dict_has(items, key)
  THEN [p \in 1..Len(items) |->
          IF items[p][1] = key THEN <<key, value>> ELSE items[p]]
  ELSE Append(items, <<key, value>>)

\* str(v) of a key, as "{}".format(v) renders it
str(v) == IF TypeOf(v) = "str" THEN v.s ELSE ToString(v.i)

(* --------------------------- reducers ---------------------------------- *)
tuple_reducer(k1, k2) ==
  IF k1 = None THEN [t |-> <<k2>>] ELSE [t |-> Append(k1.t, k2)]

underscore_reducer(k1, k2) ==
  IF k1 = None THEN k2 ELSE [s |-> str(k1) \o "_" \o str(k2)]

\* REDUCER_DICT[name](k1, k2)
REDUCER_DICT(name, k1, k2) ==
  CASE name = "tuple" -> tuple_reducer(k1, k2)
    [] name = "underscore" -> underscore_reducer(k1, k2)

(* ---------------------------- flatten ---------------------------------- *)
\* enumerate(_d) if isinstance(_d, enumerate_types) else six.viewitems(_d)
key_value_iterable(a, _d) ==
  IF isinstance(_d, a.enumerate_types)
  THEN [p \in 1..Len(_d.l) |-> <<[i |-> p - 1], _d.l[p]>>]
  ELSE _d.d

flattenable_types(a) == {Mapping} \cup a.enumerate_types

\* is_expanded with the depth test off by one: depth <= max_flatten_depth
is_expanded_inclusive(a, value, depth) ==
  /\ isinstance(value, {Mapping} \cup a.enumerate_types)
  /\ (a.max_flatten_depth = None \/ depth <= a.max_flatten_depth.i)

\* the condition under which a value is not emitted as an item but
\* recursed into (non-empty) or dropped (empty)
is_expanded(a, value, depth) ==
  /\ isinstance(value, flattenable_types(a))
  /\ (a.max_flatten_depth = None \/ depth < a.max_flatten_depth.i)

\* is_ignored with keep_empty_types disregarded
is_ignored_always(a, value) == TRUE

\* an empty expanded value is ignored unless its type is kept
is_ignored(a, value) == ~isinstance(value, a.keep_empty_types)

\* add_item without the duplicate test: a later item overwrites
add_item_overwrite(a, flat_key, value, st) ==
  LET k == IF a.inverse THEN value ELSE flat_key
      v == IF a.inverse THEN flat_key ELSE value
  IN  IF ~hashable(k)
      THEN [st EXCEPT !.exc = [exc |-> "TypeError", what |-> "unhashable type",
                               key |-> k]]
      ELSE [st EXCEPT !.flat_dict = dict_set(st.flat_dict, k, v)]

\* add_item with inverse disregarded
add_item_no_swap(a, flat_key, value, st) ==
  IF dict_has(st.flat_dict, flat_key)
  THEN [st EXCEPT !.exc = [exc |-> "ValueError", what |-> "duplicated key",
                           key |-> flat_key]]
  ELSE [st EXCEPT !.flat_dict = dict_set(st.flat_dict, flat_key, value)]

\* "add an item to the result": st is the closure's flat_dict, or the
\* exception that left it
add_item(a, flat_key, value, st) ==
  LET k == IF a.inverse THEN value ELSE flat_key
      v == IF a.inverse THEN flat_key ELSE value
  IN  IF ~hashable(k)
      THEN [st EXCEPT !.exc = [exc |-> "TypeError", what |-> "unhashable type",
                               key |-> k]]
      ELSE IF dict_has(st.flat_dict, k)
      THEN [st EXCEPT !.exc = [exc |-> "ValueError", what |-> "duplicated key",
                               key |-> k]]
      ELSE [st EXCEPT !.flat_dict = dict_set(st.flat_dict, k, v)]

RECURSIVE _flatten(_, _, _, _, _), _flatten_from(_, _, _, _, _, _)
\* the loop body for the items kvs[n..] of one container
_flatten_from(a, kvs, n, depth, parent, st) ==
  IF n > Len(kvs) \/ st.exc # None THEN st
  ELSE
    LET key == kvs[n][1]
        value == kvs[n][2]
        flat_key == REDUCER_DICT(a.reducer, parent, key)
        st1 == IF is_expanded(a, value, depth)
               THEN IF truthy(value)
                    THEN _flatten(a, value, depth + 1, flat_key, st)
                    ELSE IF is_ignored(a, value)
                    THEN st
                    ELSE add_item(a, flat_key, value, st)
               ELSE add_item(a, flat_key, value, st)
    IN  _flatten_from(a, kvs, n + 1, depth, parent, st1)

_flatten(a, _d, depth, parent, st) ==
  _flatten_from(a, key_value_iterable(a, _d), 1, depth, parent, st)

\* flatten(d, reducer, inverse, max_flatten_depth, enumerate_types,
\* keep_empty_types): [exc |-> None, val |-> the flat dict] or
\* [exc |-> the exception raised]
flatten(a) ==
  IF ~isinstance(a.d, flattenable_types(a))
  THEN [exc |-> [exc |-> "ValueError", what |-> "not flattenable", key |-> None]]
  ELSE IF a.max_flatten_depth # None /\ a.max_flatten_depth.i < 1
  THEN [exc |-> [exc |-> "ValueError", what |-> "max_flatten_depth",
                 key |-> None]]
  ELSE LET st == _flatten(a, a.d, 1, None, [flat_dict |-> <<>>, exc |-> None])
       IN  IF st.exc # None THEN [exc |-> st.exc]
           ELSE [exc |-> None, val |-> [d |-> st.flat_dict]]

(* --------------------------- splitters --------------------------------- *)
tuple_splitter(flat_key) == flat_key

\* SPLITTER_DICT[name](flat_key); the string splitters are not modelled
SPLITTER_DICT(name, flat_key) ==
  CASE name = "tuple" -> tuple_splitter(flat_key)

(* --------------------------- unflatten --------------------------------- *)
(* The objects of one unflatten call.  The caller's value objects live in  *)
(* heap (heap[j] is the value object of the j-th item of d) and are held   *)
(* by reference, [ref |-> j], wherever the call stores them; root is       *)
(* unflattened_dict.  A dict that nested_set_dict creates is held inline   *)
(* by the one dict it was stored in.  An object is addressed by the object *)
(* it is reached from (base 0: root, base j: heap[j]) and the keys to      *)
(* follow from there.                                                      *)
(***************************************************************************)
base_obj(S, base) == IF base = 0 THEN S.root ELSE S.heap[base]

RECURSIVE obj_at(_, _)
obj_at(obj, path) ==
  IF path = <<>> THEN obj ELSE obj_at(dict_get(obj.d, Head(path)), Tail(path))

RECURSIVE obj_put(_, _, _, _)
\* obj with the dict at path given the item key: value
obj_put(obj, path, key, value) ==
  IF path = <<>> THEN [d |-> dict_set(obj.d, key, value)]
  ELSE [d |-> dict_set(obj.d, Head(path),
                       obj_put(dict_get(obj.d, Head(path)), Tail(path), key,
                               value))]

\* d[key] = value for the object d at addr
store_set(S, addr, key, value) ==
  IF addr.base = 0
  THEN [S EXCEPT !.root = obj_put(S.root, addr.path, key, value),
                 !.written = @ \cup {0}]
  ELSE [S EXCEPT !.heap[addr.base] =
                   obj_put(S.heap[addr.base], addr.path, key, value),
                 !.written = @ \cup {addr.base}]

\* the address of d[key] for the object d at addr
store_child(S, addr, key) ==
  LET inner_d == dict_get(obj_at(base_obj(S, addr.base), addr.path).d, key)
  IN  IF "ref" \in DOMAIN inner_d
      THEN [base |-> inner_d.ref, path |-> <<>>]
      ELSE [base |-> addr.base, path |-> Append(addr.path, key)]

\* len(keys) and keys[level] of the tuple, list or dict that keys is
py_len(keys) ==
  CASE TypeOf(keys) = "tuple" -> Len(keys.t)
    [] TypeOf(keys) = "list" -> Len(keys.l)
    [] TypeOf(keys) = "dict" -> Len(keys.d)
py_has_item(keys, level) ==
  TypeOf(keys) = "dict" => dict_has(keys.d, [i |-> level])
py_item(keys, level) ==
  CASE TypeOf(keys) = "tuple" -> keys.t[level + 1]
    [] TypeOf(keys) = "list" -> keys.l[level + 1]
    [] TypeOf(keys) = "dict" -> dict_get(keys.d, [i |-> level])

RECURSIVE nested_set_dict(_, _, _, _, _)
\* nested_set_dict(d, keys, value, level) with d the object at addr; the
\* store after the call, S.exc the exception that left it. The object d is
\* a dict, an int or None: the callers below hand in no str, list or tuple
\* value that a longer key tuple leads into.
nested_set_dict(S, addr, keys, value, level) ==
  LET d == obj_at(base_obj(S, addr.base), addr.path)
      key == py_item(keys, level)
      raise(exc, what) ==
        [S EXCEPT !.exc = [exc |-> exc, what |-> what, key |-> keys]]
  IN
  IF TypeOf(keys) \in {"int", "NoneType"}
  THEN raise("TypeError", "no len()")
  ELSE IF ~(py_len(keys) > level)
  THEN raise("AssertionError", "len(keys) > level")
  ELSE IF ~py_has_item(keys, level)
  THEN raise("KeyError", "keys[level]")
  ELSE IF TypeOf(d) \in {"int", "NoneType"}
  THEN \* key in d
       raise("TypeError", "not iterable")
  ELSE IF ~hashable(key)
  THEN \* key in d, for d a dict
       raise("TypeError", "unhashable type")
  ELSE IF py_len(keys) = level + 1
  THEN IF dict_has(d.d, key)
       THEN raise("ValueError", "duplicated key")
       ELSE store_set(S, addr, key, value)
  ELSE IF dict_has(d.d, key)
  THEN nested_set_dict(S, store_child(S, addr, key), keys, value, level + 1)
  ELSE nested_set_dict(store_set(S, addr, key, [d |-> <<>>]),
                       [base |-> addr.base, path |-> Append(addr.path, key)],
                       keys, value, level + 1)

\* nested_convert_to_list walks the dicts under the key tuples and converts
\* nothing: both conversions are left as TODO
nested_convert_to_list(S, key_tuples, list_index_types, list_fill_value) == S

\* one pass of the loop over six.viewitems(d), from its n-th item
RECURSIVE unflatten_from(_, _, _)
unflatten_from(a, n, S) ==
  IF n > Len(a.d.d) \/ S.exc # None THEN S
  ELSE
    LET flat_key == IF a.inverse THEN a.d.d[n][2] ELSE a.d.d[n][1]
        value == IF a.inverse THEN a.d.d[n][1] ELSE [ref |-> n]
        key_tuple == SPLITTER_DICT(a.splitter, flat_key)
        S1 == [S EXCEPT !.key_tuples = Append(@, key_tuple)]
    IN  unflatten_from(a, n + 1,
          nested_set_dict(S1, [base |-> 0, path |-> <<>>], key_tuple, value, 0))

\* obj with every reference replaced by the object it refers to
RECURSIVE resolve(_, _)
resolve(S, obj) ==
  IF "ref" \in DOMAIN obj THEN resolve(S, S.heap[obj.ref])
  ELSE IF TypeOf(obj) = "dict"
  THEN [d |-> [p \in 1..Len(obj.d) |->
                 <<obj.d[p][1], resolve(S, obj.d[p][2])>>]]
  ELSE obj

\* unflatten(d, splitter, inverse, list_index_types, list_fill_value):
\* [exc |-> None, val |-> the structure returned] or [exc |-> the exception],
\* with d_after the caller's d as the call leaves it and shared the items of
\* d whose value object the call has written to
unflatten(a) ==
  LET S0 == [root |-> [d |-> <<>>],
             heap |-> [j \in 1..Len(a.d.d) |-> a.d.d[j][2]],
             key_tuples |-> <<>>, written |-> {}, exc |-> None]
      S1 == unflatten_from(a, 1, S0)
      S2 == IF S1.exc # None THEN S1
            ELSE nested_convert_to_list(S1, S1.key_tuples, a.list_index_types,
                                        a.list_fill_value)
      d_after == [d |-> [j \in 1..Len(a.d.d) |->
                           <<a.d.d[j][1], resolve(S2, S2.heap[j])>>]]
  IN  IF S2.exc # None
      THEN [exc |-> S2.exc, d_after |-> d_after, shared |-> S2.written \ {0}]
      ELSE [exc |-> None, val |-> resolve(S2, S2.root), d_after |-> d_after,
            shared |-> S2.written \ {0}]

(* ------------------------- the callers' inputs ------------------------- *)
StrKeys == {"a", "a_a"}
Scalars == {[i |-> 1], [i |-> 2]}

RECURSIVE KeySeqs(_)
KeySeqs(n) ==
  IF n = 0 THEN {<<>>}
  ELSE {Append(ks, k) : ks \in KeySeqs(n - 1), k \in StrKeys}

Injective(ks) == \A p, q \in 1..Len(ks) : p # q => ks[p] # ks[q]

\* sequences of at most w values of total size n, V[k] the values of size k
RECURSIVE ChildSeqs(_, _, _)
ChildSeqs(V, n, w) ==
  IF n = 0 THEN {<<>>}
  ELSE IF w = 0 THEN {}
  ELSE UNION {UNION {{<<v>> \o rest : rest \in ChildSeqs(V, n - k, w - 1)} :
                     v \in V[k]} : k \in 1..n}

Containers(V, n) ==
  {[l |-> cs] : cs \in ChildSeqs(V, n - 1, MaxWidth)}
  \cup UNION {{[d |-> [p \in 1..Len(cs) |-> <<[s |-> ks[p]], cs[p]>>]] :
                 ks \in {q \in KeySeqs(Len(cs)) : Injective(q)}} :
              cs \in ChildSeqs(V, n - 1, MaxWidth)}

RECURSIVE ValuesUpTo(_)
ValuesUpTo(n) ==
  IF n = 0 THEN <<>>
  ELSE LET V == ValuesUpTo(n - 1)
       IN  Append(V, (IF n = 1 THEN Scalars ELSE {}) \cup Containers(V, n))

\* every nested structure of at most MaxNodes nodes below its root
Nested ==
  LET V == ValuesUpTo(MaxNodes + 1) IN UNION {V[n] : n \in 1..(MaxNodes + 1)}

\* the values of max_flatten_depth: 0 is rejected
DepthLimits == 0..2

\* the calls of flatten: with the default reducer and every other parameter
\* varied, and with a string-joining reducer
FlattenArgs ==
  [d : Nested,
   reducer : {"tuple"},
   inverse : BOOLEAN,
   max_flatten_depth : {None} \cup {[i |-> k] : k \in DepthLimits},
   enumerate_types : {{}, {"list"}},
   keep_empty_types : SUBSET {"dict", "list"}]
  \cup
  [d : Nested,
   reducer : {"underscore"},
   inverse : BOOLEAN,
   max_flatten_depth : {None},
   enumerate_types : {{}, {"list"}},
   keep_empty_types : {{}}]

\* the flat mappings a caller hands to unflatten directly
Segments == {[s |-> "a"], [i |-> 0], [i |-> 2]}

RECURSIVE SegSeqs(_)
SegSeqs(n) ==
  IF n = 0 THEN {<<>>}
  ELSE {Append(ks, k) : ks \in SegSeqs(n - 1), k \in Segments}

\* the lengths of the key tuples
KeyLens == 1..2

KeyTuples == {[t |-> ks] : ks \in UNION {SegSeqs(n) : n \in KeyLens}}

LeafValues == {[i |-> 1], [d |-> <<>>], [d |-> << <<[s |-> "a"], [i |-> 2]>> >>]}

RECURSIVE ItemSeqs(_, _, _)
\* the item sequences of the dicts of at most n items, keys in K, values in V
ItemSeqs(K, V, n) ==
  IF n = 0 THEN {<<>>}
  ELSE LET shorter == ItemSeqs(K, V, n - 1)
       IN  shorter \cup
           {Append(its, <<k, v>>) :
              its \in {q \in shorter : Len(q) = n - 1}, k \in K, v \in V}

DictsOf(K, V, n) ==
  {[d |-> its] : its \in {q \in ItemSeqs(K, V, n) :
                            \A i, j \in 1..Len(q) : i # j => q[i][1] # q[j][1]}}

UnflattenArgs ==
  [d : DictsOf(KeyTuples, LeafValues, MaxEntries),
   splitter : {"tuple"},
   inverse : {FALSE},
   list_index_types : {{"ListIndex"}, {"int"}},
   list_fill_value : {None}]
  \cup
  [d : DictsOf(Scalars, KeyTuples, MaxEntries),
   splitter : {"tuple"},
   inverse : {TRUE},
   list_index_types : {{"ListIndex"}, {"int"}},
   list_fill_value : {None}]

(* --------------------------- the state machine ------------------------- *)
Init ==
  /\ pc = "idle"
  /\ fargs = None
  /\ flat_out = None
  /\ uargs = None
  /\ unflat_out = None

\* a caller calls flatten(d, ...)
Flatten ==
  /\ pc = "idle"
  /\ \E a \in FlattenArgs :
       /\ fargs' = a
       /\ flat_out' = flatten(a)
  /\ pc' = "flattened"
  /\ UNCHANGED <<uargs, unflat_out>>

\* a caller calls unflatten(d, ...) on a flat mapping of its own
Unflatten ==
  /\ pc = "idle"
  /\ \E a \in UnflattenArgs :
       /\ uargs' = a
       /\ unflat_out' = unflatten(a)
  /\ pc' = "unflattened"
  /\ UNCHANGED <<fargs, flat_out>>

\* a caller hands what flatten returned to unflatten, with the splitter of
\* the reducer, the same inverse and the other parameters at their defaults
UnflattenFlat ==
  /\ pc = "flattened"
  /\ flat_out.exc = None
  /\ fargs.reducer = "tuple"
  /\ uargs' = [d |-> flat_out.val, splitter |-> fargs.reducer,
               inverse |-> fargs.inverse, list_index_types |-> {"ListIndex"},
               list_fill_value |-> None]
  /\ unflat_out' = unflatten(uargs')
  /\ pc' = "unflattened"
  /\ UNCHANGED <<fargs, flat_out>>

Next == Flatten \/ Unflatten \/ UnflattenFlat

Spec == Init /\ [][Next]_vars

(* ------------------- notions the properties are stated in -------------- *)
\* a == b of Python: dicts compare by their set of items, whatever the
\* insertion order; sequences compare element by element
RECURSIVE py_norm(_)
py_norm(v) ==
  CASE TypeOf(v) = "dict" ->
         [d |-> {<<v.d[p][1], py_norm(v.d[p][2])>> : p \in 1..Len(v.d)}]
    [] TypeOf(v) = "list" -> [l |-> [p \in 1..Len(v.l) |-> py_norm(v.l[p])]]
    [] TypeOf(v) = "tuple" -> [t |-> [p \in 1..Len(v.t) |-> py_norm(v.t[p])]]
    [] OTHER -> v
py_eq(a, b) == py_norm(a) = py_norm(b)

\* every <<path, value>> the traversal can reach in _d when nothing limits
\* its depth: the items of _d and of every flattenable value below it
RECURSIVE Reached(_, _, _)
Reached(a, _d, path) ==
  LET kvs == key_value_iterable(a, _d)
  IN  UNION {{<<Append(path, kvs[n][1]), kvs[n][2]>>} \cup
             (IF isinstance(kvs[n][2], flattenable_types(a))
              THEN Reached(a, kvs[n][2], Append(path, kvs[n][1]))
              ELSE {}) : n \in 1..Len(kvs)}

\* the leaves of the input in traversal order, each as the <<key, value>>
\* item it is emitted as
RECURSIVE EmittedFrom(_, _, _, _, _)
EmittedFrom(a, kvs, n, depth, parent) ==
  IF n > Len(kvs) THEN <<>>
  ELSE
    LET value == kvs[n][2]
        flat_key == REDUCER_DICT(a.reducer, parent, kvs[n][1])
        item == IF a.inverse THEN <<value, flat_key>> ELSE <<flat_key, value>>
        here == IF is_expanded(a, value, depth)
                THEN IF truthy(value)
                     THEN EmittedFrom(a, key_value_iterable(a, value), 1,
                                      depth + 1, flat_key)
                     ELSE IF is_ignored(a, value) THEN <<>> ELSE <<item>>
                ELSE <<item>>
    IN  here \o EmittedFrom(a, kvs, n + 1, depth, parent)

Emitted(a) == EmittedFrom(a, key_value_iterable(a, a.d), 1, 1, None)

\* flatten gets as far as its traversal
Traversed(a) ==
  /\ isinstance(a.d, flattenable_types(a))
  /\ (a.max_flatten_depth = None \/ a.max_flatten_depth.i >= 1)

HasItem(items, key, value) ==
  \E p \in 1..Len(items) : items[p][1] = key /\ items[p][2] = value

Swapped(items) == [p \in 1..Len(items) |-> <<items[p][2], items[p][1]>>]

ValuesDistinct(items) ==
  \A p, q \in 1..Len(items) : p # q => ~py_eq(items[p][2], items[q][2])

\* a successful plain call of flatten with the tuple reducer
PlainFlattened ==
  /\ pc = "flattened"
  /\ fargs.reducer = "tuple"
  /\ ~fargs.inverse
  /\ flat_out.exc = None

C3_DepthLimit ==
  PlainFlattened =>
    LET F == flat_out.val.d
        R == Reached(fargs, fargs.d, <<>>)
        Flattenable(v) == isinstance(v, flattenable_types(fargs))
    IN  IF fargs.max_flatten_depth = None
        THEN \A p \in 1..Len(F) : ~(Flattenable(F[p][2]) /\ truthy(F[p][2]))
        ELSE LET k == fargs.max_flatten_depth.i
             IN  /\ \A p \in 1..Len(F) : Len(F[p][1].t) <= k
                 /\ \A r \in R :
                      /\ (Len(r[1]) = k /\ Flattenable(r[2]))
                           => HasItem(F, [t |-> r[1]], r[2])
                      /\ (Len(r[1]) < k /\ Flattenable(r[2]) /\ truthy(r[2]))
                           => ~dict_has(F, [t |-> r[1]])
                      /\ (Len(r[1]) <= k /\ ~Flattenable(r[2]))
                           => HasItem(F, [t |-> r[1]], r[2])

\* a non-empty dict reached at depth 2 is emitted unexpanded under k = 2
C3_Witness ==
  /\ PlainFlattened
  /\ fargs.max_flatten_depth = [i |-> 2]
  /\ \E p \in 1..Len(flat_out.val.d) :
       /\ Len(flat_out.val.d[p][1].t) = 2
       /\ TypeOf(flat_out.val.d[p][2]) = "dict"
       /\ truthy(flat_out.val.d[p][2])

(* ------------------------------- C4 ------------------------------------ *)
\* C4 as claimed: for every setting of max_flatten_depth, an empty
\* flattenable container nested in the input has no item in the result
\* unless its type is in keep_empty_types, and then exactly the item
\* (flat_key, the empty container).
C4_AsClaimed ==
  PlainFlattened =>
    \A r \in Reached(fargs, fargs.d, <<>>) :
      (isinstance(r[2], flattenable_types(fargs)) /\ ~truthy(r[2])) =>
        IF isinstance(r[2], fargs.keep_empty_types)
        THEN HasItem(flat_out.val.d, [t |-> r[1]], r[2])
        ELSE ~dict_has(flat_out.val.d, [t |-> r[1]])

\* C4 amended: the keep_empty_types policy governs the empty flattenable
\* containers reached at a depth below max_flatten_depth (at any depth when
\* it is unset); one reached at depth exactly max_flatten_depth is emitted
\* whatever keep_empty_types holds, and one below that depth has no item.
C4_EmptyContainerPolicy ==
  PlainFlattened =>
    \A r \in Reached(fargs, fargs.d, <<>>) :
      (isinstance(r[2], flattenable_types(fargs)) /\ ~truthy(r[2])) =>
        LET unset == fargs.max_flatten_depth = None
            depth == Len(r[1])
        IN  IF unset \/ depth < fargs.max_flatten_depth.i
            THEN IF isinstance(r[2], fargs.keep_empty_types)
                 THEN HasItem(flat_out.val.d, [t |-> r[1]], r[2])
                 ELSE ~dict_has(flat_out.val.d, [t |-> r[1]])
            ELSE IF depth = fargs.max_flatten_depth.i
            THEN HasItem(flat_out.val.d, [t |-> r[1]], r[2])
            ELSE ~dict_has(flat_out.val.d, [t |-> r[1]])

\* an empty dict below the depth limit is kept because dict is listed
C4_Witness ==
  /\ PlainFlattened
  /\ fargs.max_flatten_depth = [i |-> 2]
  /\ "dict" \in fargs.keep_empty_types
  /\ \E p \in 1..Len(flat_out.val.d) :
       /\ Len(flat_out.val.d[p][1].t) = 1
       /\ flat_out.val.d[p][2] = [d |-> <<>>]

(* ------------------------------- C9 ------------------------------------ *)
\* what a call of unflatten gave its caller: the exception, or the structure
Outcome(out) ==
  IF out.exc # None THEN [exc |-> out.exc]
  ELSE [exc |-> None, val |-> py_norm(out.val)]

\* unflatten(m, inverse=True) is unflatten of the key/value swap of m, for
\* m whose swap is a mapping; and unflattening an inverse flatten gives what
\* unflattening the plain flatten gives
InverseUnflattenIsSwap ==
  (pc = "unflattened" /\ uargs.inverse) =>
    /\ (\A p, q \in 1..Len(uargs.d.d) :
          p # q => uargs.d.d[p][2] # uargs.d.d[q][2])
         => Outcome(unflat_out) =
              Outcome(unflatten([uargs EXCEPT !.d = [d |-> Swapped(uargs.d.d)],
                                              !.inverse = FALSE]))
    /\ fargs # None =>
         LET plain == flatten([fargs EXCEPT !.inverse = FALSE])
         IN  Outcome(unflat_out) =
               Outcome(unflatten([uargs EXCEPT !.d = plain.val,
                                               !.inverse = FALSE]))

\* C9 as claimed: for every input on which flatten(x) succeeds with pairwise
\* distinct leaf values, flatten(x, inverse=True) is the key/value swap of
\* flatten(x); unflatten(m, inverse=True) equals unflatten of the swap of m;
\* so unflatten(flatten(x, inverse=True), inverse=True) equals
\* unflatten(flatten(x)).
C9_AsClaimed ==
  /\ (pc = "flattened" /\ fargs.inverse) =>
       LET plain == flatten([fargs EXCEPT !.inverse = FALSE])
       IN  (plain.exc = None /\ ValuesDistinct(plain.val.d)) =>
             /\ flat_out.exc = None
             /\ flat_out.val.d = Swapped(plain.val.d)
  /\ InverseUnflattenIsSwap

\* C9 amended: the same, for the inputs on which flatten(x) succeeds with
\* pairwise distinct and hashable leaf values (an unhashable leaf value, a
\* list or a dict, makes flatten(x, inverse=True) raise TypeError).
C9_Inversion ==
  /\ (pc = "flattened" /\ fargs.inverse) =>
       LET plain == flatten([fargs EXCEPT !.inverse = FALSE])
       IN  (/\ plain.exc = None
            /\ ValuesDistinct(plain.val.d)
            /\ \A p \in 1..Len(plain.val.d) : hashable(plain.val.d[p][2])) =>
             /\ flat_out.exc = None
             /\ flat_out.val.d = Swapped(plain.val.d)
  /\ InverseUnflattenIsSwap

\* an inverse flatten of two leaves has been unflattened with inverse
C9_Witness ==
  /\ pc = "unflattened"
  /\ fargs # None
  /\ fargs.inverse
  /\ Len(flat_out.val.d) = 2
  /\ unflat_out.exc = None
  /\ Len(unflat_out.val.d) = 2

(* ----------------------- unflatten: notions ---------------------------- *)
\* the key tuple and the value of the n-th item of the call's d
KeyTupleOf(a, n) == IF a.inverse THEN a.d.d[n][2] ELSE a.d.d[n][1]
SegmentsOf(a, n) ==
  CASE TypeOf(KeyTupleOf(a, n)) = "tuple" -> KeyTupleOf(a, n).t
    [] TypeOf(KeyTupleOf(a, n)) = "list" -> KeyTupleOf(a, n).l
    [] OTHER -> <<>>
ValueOf(a, n) == IF a.inverse THEN a.d.d[n][1] ELSE a.d.d[n][2]

IsPrefix(p, q) == Len(p) <= Len(q) /\ \A n \in 1..Len(p) : p[n] = q[n]
Prefix(q, n) == [m \in 1..n |-> q[m]]

\* the paths of the nodes unflatten builds: the proper prefixes of the key
\* tuples, the root <<>> among them, that lie inside no item's value
BuiltPaths(a) ==
  {p \in UNION {{Prefix(SegmentsOf(a, n), m) :
                   m \in 0..(Len(SegmentsOf(a, n)) - 1)} :
                n \in 1..Len(a.d.d)} :
     \A n \in 1..Len(a.d.d) : ~IsPrefix(SegmentsOf(a, n), p)}

\* the segments the key tuples continue the path p with
ChildSegments(a, p) ==
  {SegmentsOf(a, n)[Len(p) + 1] :
     n \in {m \in 1..Len(a.d.d) :
              /\ Len(SegmentsOf(a, m)) > Len(p)
              /\ IsPrefix(p, SegmentsOf(a, m))}}

\* the node of a returned structure at a path: obj[k1][k2]...
RECURSIVE NodeAt(_, _)
NodeAt(obj, path) ==
  IF path = <<>> THEN obj
  ELSE IF TypeOf(obj) = "list"
  THEN NodeAt(obj.l[Head(path).i + 1], Tail(path))
  ELSE NodeAt(dict_get(obj.d, Head(path)), Tail(path))

RECURSIVE HasNodeAt(_, _)
HasNodeAt(obj, path) ==
  IF path = <<>> THEN TRUE
  ELSE IF TypeOf(obj) = "list"
  THEN /\ TypeOf(Head(path)) = "int"
       /\ Head(path).i + 1 \in 1..Len(obj.l)
       /\ HasNodeAt(obj.l[Head(path).i + 1], Tail(path))
  ELSE /\ TypeOf(obj) = "dict"
       /\ dict_has(obj.d, Head(path))
       /\ HasNodeAt(dict_get(obj.d, Head(path)), Tail(path))

Max(S) == CHOOSE n \in S : \A m \in S : m <= n

(* ------------------------------- C1 ------------------------------------ *)
\* no container of the structure is empty
RECURSIVE NoEmptyContainer(_)
NoEmptyContainer(v) ==
  CASE TypeOf(v) = "dict" ->
         Len(v.d) > 0 /\ \A p \in 1..Len(v.d) : NoEmptyContainer(v.d[p][2])
    [] TypeOf(v) = "list" ->
         Len(v.l) > 0 /\ \A p \in 1..Len(v.l) : NoEmptyContainer(v.l[p])
    [] OTHER -> TRUE

\* C1: unflatten(flatten(x, reducer="tuple", enumerate_types=(list,)),
\* splitter="tuple") equals x, for every nested structure x of dicts, lists
\* and scalars. (Stated here for the x that hold no empty container, which
\* flatten drops by its empty-container policy.)
C1_RoundTrip ==
  (/\ pc = "unflattened"
   /\ fargs # None
   /\ fargs.reducer = "tuple"
   /\ ~fargs.inverse
   /\ fargs.max_flatten_depth = None
   /\ fargs.enumerate_types = {"list"}
   /\ fargs.keep_empty_types = {}
   /\ NoEmptyContainer(fargs.d)) =>
    /\ unflat_out.exc = None
    /\ py_eq(unflat_out.val, fargs.d)

(* ------------------------------- C5 ------------------------------------ *)
\* C5: in the structure unflatten returns, every node it built (the root
\* included) whose child segments are all of a list-index type is a list of
\* length max(index)+1, each child at its index and list_fill_value at every
\* index that has no child.
C5_ListReconstruction ==
  (pc = "unflattened" /\ unflat_out.exc = None) =>
    \A p \in BuiltPaths(uargs) :
      LET segs == ChildSegments(uargs, p)
      IN  (\A k \in segs : isinstance(k, uargs.list_index_types)) =>
            /\ HasNodeAt(unflat_out.val, p)
            /\ LET node == NodeAt(unflat_out.val, p)
               IN  /\ TypeOf(node) = "list"
                   /\ Len(node.l) = Max({k.i : k \in segs}) + 1
                   /\ \A n \in 1..Len(node.l) :
                        [i |-> n - 1] \notin segs
                          => node.l[n] = uargs.list_fill_value

(* ------------------------------- C6 ------------------------------------ *)
\* some path is continued by a list-index segment in one key tuple and by a
\* mapping-key segment in another
MixedStructure(a) ==
  \E p \in BuiltPaths(a) :
    LET segs == ChildSegments(a, p)
    IN  /\ \E k \in segs : isinstance(k, a.list_index_types)
        /\ \E k \in segs : ~isinstance(k, a.list_index_types)

\* C6: unflatten of a flat mapping that uses a path both as a sequence and
\* as a mapping fails (with the inconsistent-structure error) and returns no
\* structure.
C6_StructuralConsistency ==
  (pc = "unflattened" /\ MixedStructure(uargs)) =>
    /\ unflat_out.exc # None
    /\ "val" \notin DOMAIN unflat_out

(* ------------------------------- C7 ------------------------------------ *)
\* C7: unflatten never silently overwrites a leaf: an item whose key tuple
\* is, or is a prefix of, the key tuple of an item applied before it makes
\* the call fail; and in every structure returned, each item's value is
\* found unchanged at the path its key splits to.
C7_NoSilentOverwrite ==
  pc = "unflattened" =>
    /\ (\E n \in 1..Len(uargs.d.d) : \E m \in 1..(n - 1) :
          IsPrefix(SegmentsOf(uargs, n), SegmentsOf(uargs, m)))
         => unflat_out.exc # None
    /\ unflat_out.exc = None =>
         \A n \in 1..Len(uargs.d.d) :
           /\ HasNodeAt(unflat_out.val, SegmentsOf(uargs, n))
           /\ py_eq(NodeAt(unflat_out.val, SegmentsOf(uargs, n)),
                    ValueOf(uargs, n))

(* ------------------------------- C8 ------------------------------------ *)
Orders(n) ==
  {f \in [1..n -> 1..n] : \A p, q \in 1..n : p # q => f[p] # f[q]}

\* C8: the same flat items applied in any other iteration order give the
\* same outcome: equal structures, or failure in both orders.
C8_OrderIndependence ==
  pc = "unflattened" =>
    \A f \in Orders(Len(uargs.d.d)) :
      LET other == unflatten([uargs EXCEPT !.d =
                     [d |-> [p \in 1..Len(uargs.d.d) |-> uargs.d.d[f[p]]]]])
      IN  IF unflat_out.exc # None THEN other.exc # None
          ELSE other.exc = None /\ py_eq(other.val, unflat_out.val)

(* ------------------------------- C10 ----------------------------------- *)
\* C10: a call of unflatten, successful or failed, leaves the flat mapping
\* it was given and every value object in it unchanged, and has written to
\* no container that the input holds.
C10_InputUnchanged ==
  pc = "unflattened" =>
    /\ py_eq(unflat_out.d_after, uargs.d)
    /\ unflat_out.shared = {}
====
